---- MODULE Spec2Model ----
(***************************************************************************)
(* Geometric SMOTE (imbtools/algorithms/geometric_smote.py).               *)
(*                                                                         *)
(* Numbers.  Every real number of the program is represented exactly as    *)
(* an integer count of 1/Scale units (coordinates, distances, radii), of   *)
(* 1/UnitDen units (the uniform draw u and its root) or of 1/NormLcm units *)
(* (the components of a unit direction).  The random generator only yields *)
(* values whose norm / root is exactly representable, so no operation of   *)
(* the model rounds.  Floating-point rounding is outside the model.        *)
(***************************************************************************)
EXTENDS Integers, Sequences, FiniteSets, TLC

VARIABLES
    \* self.* parameters of the estimator and the arguments of _sample
    X, y, ratio_, kind, k_neighbors, random_state,
    \* state of the RandomState instance when random_state is an instance
    rng,
    \* position in _sample / _make_geometric_samples, and the pending return
    pc, ret,
    \* objects created by _validate_estimator
    nn_minority_, nn_majority_,
    \* locals of _sample
    X_resampled, y_resampled, item,
    \* locals of _make_geometric_samples
    part, class_label, radii, n_samples, random_states, samples_indices,
    rows, cols, X_new, y_new, filled,
    \* observation: calls made on the neighbor searches, batches generated,
    \* what the call returned or raised, the run number and the first run's result
    nn_calls, batches, returned, raised, run, first_returned,
    \* the last call of _make_geometric_sample: [center, radius, seed, out]
    sample_call

params == <<X, y, ratio_, kind, k_neighbors, random_state>>
objs   == <<nn_minority_, nn_majority_>>
locals == <<X_resampled, y_resampled, item>>
frame  == <<part, class_label, radii, n_samples, random_states, samples_indices,
            rows, cols, X_new, y_new, filled>>
obs    == <<nn_calls, batches, returned, raised, run, first_returned>>
vars   == <<params, rng, pc, ret, objs, locals, frame, obs, sample_call>>

----------------------------------------------------------------------------
(* Bounds of the model *)

\* resolution of the uniform draw: u^(1/d) ranges over p / UniformRes, p < UniformRes
UniformRes == 3
\* number of states of the random generator
RngMod == 16
\* largest radius (in whole units) tried on _make_geometric_sample alone
MaxRadius == 3
\* number of rows of the data set (and the largest partition)
MaxPoints == 4
\* largest per-class count of samples to generate
MaxSamples == 2
\* largest k_neighbors
MaxK == 2

----------------------------------------------------------------------------
(* Exact arithmetic *)

Dims == {1, 2}

\* denominators of the uniform draw, of a unit direction and of a coordinate
UnitDen == UniformRes * UniformRes
NormLcm == 5
Scale   == UnitDen * NormLcm

\* Python's None, and the values standing for "not set" where the set values are
\* sequences, records or numbers
None == "None"
Unbound == <<>>
NoLabel == -1
NoSearch == [n_neighbors |-> 0, fit_X |-> <<>>]
NoCall == [center |-> <<>>, radius |-> 0, seed |-> 0, out |-> <<>>]

Abs(a) == IF a < 0 THEN -a ELSE a

RECURSIVE Pow(_, _)
Pow(b, e) == IF e = 0 THEN 1 ELSE b * Pow(b, e - 1)

RECURSIVE SumSeq(_)
SumSeq(s) == IF s = <<>> THEN 0 ELSE Head(s) + SumSeq(Tail(s))

Dot(a, b) == SumSeq([i \in 1..Len(a) |-> a[i] * b[i]])

\* the whole square root of n, known to lie in lo..hi
RECURSIVE SqrtIn(_, _, _)
SqrtIn(n, lo, hi) ==
    IF lo >= hi THEN lo
    ELSE LET mid == (lo + hi + 1) \div 2
         IN  IF mid * mid <= n THEN SqrtIn(n, mid, hi) ELSE SqrtIn(n, lo, mid - 1)

\* numpy.linalg.norm of a vector; every norm the model takes is a whole number
\* of units, and any other has no value here
Norm(v) ==
    LET r == SqrtIn(Dot(v, v), 0, SumSeq([i \in 1..Len(v) |-> Abs(v[i])]))
    IN  IF r * r = Dot(v, v) THEN r ELSE CHOOSE x \in {} : TRUE

VSub(a, b) == [i \in 1..Len(a) |-> a[i] - b[i]]

\* u ** (1 / d) for u = p^2 / UnitDen: the r with (r/UnitDen)^d = u/UnitDen
Root(u, d) == CHOOSE r \in 0..UnitDen : Pow(r, d) = u * Pow(UnitDen, d - 1)

----------------------------------------------------------------------------
(* The random generator (numpy.random.RandomState) *)

\* the generator's next state
Advance(s) == (5 * s + 3) % RngMod

\* RandomState(seed)
Seeded(seed) == seed % RngMod

\* vectors that normal(size=d) yields: non-zero, of whole norm dividing NormLcm
NormalVectors(d) ==
    IF d = 1 THEN << <<1>>, <<-1>>, <<5>>, <<-5>> >>
    ELSE << <<3, 4>>, <<-4, 3>>, <<0, -1>>, <<-5, 0>>, <<1, 0>>, <<-3, -4>> >>

\* random_state.normal(size=d) in generator state s (already advanced)
Normal(s, d) == NormalVectors(d)[(s % Len(NormalVectors(d))) + 1]

\* random_state.uniform(size=1) in generator state s, in 1/UnitDen units: in [0, 1)
Uniform(s) == (s % UniformRes) * (s % UniformRes)

\* random_state.randint(low=0, high=high) in generator state s
RandInt(s, high) == s % high

\* the generator state after n draws from state s
RECURSIVE AdvanceN(_, _)
AdvanceN(s, n) == IF n = 0 THEN s ELSE AdvanceN(Advance(s), n - 1)

----------------------------------------------------------------------------
(* _make_geometric_sample *)

\* normal_samples / norm(normal_samples), in 1/NormLcm units
OnSphereNoNorm(normal_samples) ==
    [i \in 1..Len(normal_samples) |-> normal_samples[i] * NormLcm]

OnSphere(normal_samples) ==
    [i \in 1..Len(normal_samples) |->
        (normal_samples[i] * NormLcm) \div Norm(normal_samples)]

\* (uniform ** (1 / center.size)) * on_sphere, in 1/Scale units
InBall(u, on_sphere) ==
    [i \in 1..Len(on_sphere) |-> Root(u, Len(on_sphere)) * on_sphere[i]]

\* center + radius * in_ball
TranslateNoRadius(center, radius, in_ball) ==
    [i \in 1..Len(center) |-> center[i] + in_ball[i]]

Translate(center, radius, in_ball) ==
    [i \in 1..Len(center) |-> center[i] + (radius * in_ball[i]) \div Scale]

MakeGeometricSample(center, radius, seed) ==
    LET s0 == Seeded(seed)                       \* check_random_state(seed)
        s1 == Advance(s0)
        normal_samples == Normal(s1, Len(center))
        on_sphere == OnSphere(normal_samples)
        s2 == Advance(s1)
        in_ball == InBall(Uniform(s2), on_sphere)
    IN  Translate(center, radius, in_ball)

----------------------------------------------------------------------------
(* The neighbor search (sklearn.neighbors.NearestNeighbors) *)

\* Euclidean distance from point q to every row of the fitted points
Dists(q, fit_X) == [j \in 1..Len(fit_X) |-> Norm(VSub(q, fit_X[j]))]

\* the positions of s ordered by ascending value (ties: lower position first)
RECURSIVE ArgSortFrom(_, _)
ArgSortFrom(s, left) ==
    IF left = {} THEN <<>>
    ELSE LET m == CHOOSE i \in left :
                    \A j \in left : s[i] < s[j] \/ (s[i] = s[j] /\ i <= j)
         IN  <<m>> \o ArgSortFrom(s, left \ {m})

ArgSort(s) == ArgSortFrom(s, 1..Len(s))

\* kneighbors(query)[1]: per query row, the positions of its k nearest fitted points
KNeighborsInd(fit_X, query, k) ==
    [i \in 1..Len(query) |-> SubSeq(ArgSort(Dists(query[i], fit_X)), 1, k)]

\* kneighbors(query)[0]: per query row, the distances to its k nearest fitted
\* points, ascending
KNeighbors(fit_X, query, k) ==
    [i \in 1..Len(query) |->
        LET ds  == Dists(query[i], fit_X)
            ord == ArgSort(ds)
        IN  [c \in 1..k |-> ds[ord[c]]]]

\* fit(data) raises on zero rows
FitRaises(data) == Len(data) = 0

\* kneighbors(query) raises on zero query rows or when more neighbors are asked
\* than points were fitted
KNeighborsRaises(fit_X, query, k) == Len(query) = 0 \/ k > Len(fit_X)

----------------------------------------------------------------------------
(* _make_geometric_samples *)

\* check_random_state: a fresh generator for an int seed, the instance itself otherwise
CheckRandomState(rs, g) == IF rs.type = "int" THEN Seeded(rs.seed) ELSE g

\* check_random_states(random_state, n): n seeds drawn from the generator in state g
CheckRandomStates(g, n) == [i \in 1..n |-> AdvanceN(g, i)]

\* random_state.randint(low=0, high=high, size=n) from generator state g
RandIntSeq(g, high, n) == [i \in 1..n |-> RandInt(AdvanceN(g, i), high)]

\* len(radii.flatten())
FlatLen(r) == IF r = <<>> THEN 0 ELSE Len(r) * Len(r[1])

\* np.floor_divide(samples_indices, radii.shape[1]), np.mod(...): 0-based
RowsOfByRowCount(indices, r) == [i \in 1..Len(indices) |-> indices[i] \div Len(r)]

RowsOf(indices, r) == [i \in 1..Len(indices) |-> indices[i] \div Len(r[1])]
ColsOf(indices, r) == [i \in 1..Len(indices) |-> indices[i] % Len(r[1])]

\* np.zeros((n, d))
Zeros(n, d) == [i \in 1..n |-> [j \in 1..d |-> 0]]

\* lines 55-60: the call's locals before its loop, for generator state g
EnterBatch(Xp, label, r, n, g, back) ==
    LET seeds   == CheckRandomStates(g, n)
        g1      == AdvanceN(g, n)
        indices == RandIntSeq(g1, FlatLen(r), n)
    IN  /\ part' = Xp
        /\ class_label' = label
        /\ radii' = r
        /\ n_samples' = n
        /\ random_states' = seeds
        /\ samples_indices' = indices
        /\ rows' = RowsOf(indices, r)
        /\ cols' = ColsOf(indices, r)
        /\ X_new' = Zeros(n, Len(Xp[1]))
        /\ y_new' = <<>>
        /\ filled' = {}
        /\ rng' = IF random_state.type = "int" THEN rng ELSE AdvanceN(g1, n)
        /\ pc' = "draw"
        /\ ret' = back

\* the generator that draw row_ind uses: its own, pre-derived
DrawSeedShared(row_ind, done) == random_states[Cardinality(done) + 1]

DrawSeed(row_ind, done) == random_states[row_ind]

\* the draws that may execute next: the loop of the first run goes in index
\* order; the second run executes the same loop body in any order
Schedulable ==
    LET pending == (1..n_samples) \ filled
    IN  IF run = 1 THEN {i \in pending : \A j \in pending : i <= j} ELSE pending

\* X[row]: the center of draw row_ind is the selected point of the partition
CenterByCol(row_ind) == part[cols[row_ind] + 1]

Center(row_ind) == part[rows[row_ind] + 1]

\* lines 61-62: one iteration of the loop
Draw ==
    /\ pc = "draw"
    /\ \E row_ind \in Schedulable :
        LET center == Center(row_ind)
            radius == radii[rows[row_ind] + 1][cols[row_ind] + 1]
            seed   == DrawSeed(row_ind, filled)
            out    == MakeGeometricSample(center, radius, seed)
        IN  /\ X_new' = [X_new EXCEPT ![row_ind] = out]
            /\ filled' = filled \cup {row_ind}
            /\ sample_call' = [center |-> center, radius |-> radius,
                               seed |-> seed, out |-> out]
    /\ UNCHANGED <<params, rng, pc, ret, objs, locals, obs>>
    /\ UNCHANGED <<part, class_label, radii, n_samples, random_states,
                   samples_indices, rows, cols, y_new>>

\* [class_label] * len(samples_indices)
LabelsNoTarget(label, indices) == [i \in 1..Len(indices) |-> 0]

Labels(label, indices) == [i \in 1..Len(indices) |-> label]

\* lines 63-65: the loop is over; build y_new and return
BatchReturn ==
    /\ pc = "draw"
    /\ filled = 1..n_samples
    /\ y_new' = Labels(class_label, samples_indices)
    /\ pc' = ret
    /\ UNCHANGED <<params, rng, ret, objs, locals, obs, sample_call>>
    /\ UNCHANGED <<part, class_label, radii, n_samples, random_states,
                   samples_indices, rows, cols, X_new, filled>>

----------------------------------------------------------------------------
(* GeometricSMOTE *)

GEOMETRIC_SMOTE_KIND == {"regular", "majority", "minority"}

\* safe_indexing(X, np.flatnonzero(y == class_label)) and (y != class_label)
XPositive(label) == SelectSeq([i \in 1..Len(X) |-> <<X[i], y[i]>>],
                              LAMBDA r : r[2] = label)
XNegative(label) == SelectSeq([i \in 1..Len(X) |-> <<X[i], y[i]>>],
                              LAMBDA r : r[2] # label)

Rows(labelled) == [i \in 1..Len(labelled) |-> labelled[i][1]]

X_positive(label) == Rows(XPositive(label))
X_negative(label) == Rows(XNegative(label))

\* check_neighbors_object('k_neighbors', k, additional_neighbor=1)
MinorityNeighbors(k) == k + 1

\* check_neighbors_object('nn_majority', nn_object=1)
MajorityNeighbors == 1

NNCall(nn, op, label, data) == [nn |-> nn, op |-> op, class_label |-> label, data |-> data]

\* an exception leaves _sample: nothing is returned
RaisePartial(what) ==
    /\ raised' = what
    /\ pc' = "error"
    /\ returned' = IF X_resampled = Unbound THEN Unbound ELSE <<X_resampled, y_resampled>>
    /\ UNCHANGED <<params, rng, ret, locals, frame, run, first_returned,
                   batches, sample_call>>

Raise(what) ==
    /\ raised' = what
    /\ pc' = "error"
    /\ UNCHANGED <<params, rng, ret, locals, frame, returned, run, first_returned,
                   batches, sample_call>>

\* self.kind in GEOMETRIC_SMOTE_KIND
KnownKindAny(k) == TRUE

KnownKind(k) == k \in GEOMETRIC_SMOTE_KIND

\* lines 125-138, reached from line 160
ValidateEstimator ==
    /\ pc = "validate"
    /\ IF ~KnownKind(kind)
       THEN /\ Raise("ValueError: unknown kind")
            /\ UNCHANGED <<objs, nn_calls>>
       ELSE /\ nn_minority_' =
                  IF kind \in {"minority", "regular"}
                  THEN [n_neighbors |-> MinorityNeighbors(k_neighbors), fit_X |-> <<>>]
                  ELSE nn_minority_
            /\ nn_majority_' =
                  IF kind \in {"majority", "regular"}
                  THEN [n_neighbors |-> MajorityNeighbors, fit_X |-> <<>>]
                  ELSE nn_majority_
            /\ pc' = "copy"
            /\ UNCHANGED <<params, rng, ret, locals, frame, obs, sample_call>>

\* lines 162-163
CopyInputs ==
    /\ pc = "copy"
    /\ X_resampled' = X
    /\ y_resampled' = y
    /\ item' = 1
    /\ pc' = "loop"
    /\ UNCHANGED <<params, rng, ret, objs, frame, obs, sample_call>>

AtItem == pc = "loop" /\ item <= Len(ratio_)

\* lines 167-168
SkipClassNever == FALSE

SkipClass == ratio_[item].n_samples = 0

Continue ==
    /\ AtItem
    /\ SkipClass
    /\ item' = item + 1
    /\ UNCHANGED <<params, rng, pc, ret, objs, X_resampled, y_resampled, frame, obs,
                   sample_call>>

\* where the batch of the minority block returns to
AfterMinorityOnly == "append"

AfterMinority == IF kind = "regular" THEN "majority" ELSE "append"

\* lines 170-177 (up to the loop of _make_geometric_samples)
MinorityBlock ==
    /\ AtItem
    /\ ~SkipClass
    /\ kind \in {"minority", "regular"}
    /\ LET label == ratio_[item].class_label
           Xp    == X_positive(label)
           k     == nn_minority_.n_neighbors
           fit   == NNCall("minority", "fit", label, Xp)
           query == NNCall("minority", "kneighbors", label, Xp)
       IN  IF FitRaises(Xp)
           THEN /\ nn_calls' = Append(nn_calls, fit)
                /\ Raise("ValueError: fit")
                /\ UNCHANGED objs
           ELSE /\ nn_minority_' = [nn_minority_ EXCEPT !.fit_X = Xp]
                /\ nn_calls' = nn_calls \o <<fit, query>>
                /\ UNCHANGED nn_majority_
                /\ IF KNeighborsRaises(Xp, Xp, k)
                   THEN Raise("ValueError: kneighbors")
                   ELSE /\ EnterBatch(Xp, label, KNeighbors(Xp, Xp, k),
                                      ratio_[item].n_samples,
                                      CheckRandomState(random_state, rng),
                                      AfterMinority)
                        /\ batches' = Append(batches, "minority")
                        /\ UNCHANGED <<params, locals, returned, raised, run,
                                       first_returned, sample_call>>

\* the radii the majority block computes for a class
RadiiMajority(label) ==
    KNeighbors(X_negative(label), X_positive(label), nn_majority_.n_neighbors)

\* lines 179-183 (up to the loop of _make_geometric_samples); after lines 170-171
\* when the minority block does not run
MajorityBlock ==
    /\ \/ AtItem /\ ~SkipClass /\ kind = "majority"
       \/ pc = "majority"
    /\ LET label == ratio_[item].class_label
           Xp    == X_positive(label)
           Xn    == X_negative(label)
           k     == nn_majority_.n_neighbors
           fit   == NNCall("majority", "fit", label, Xn)
           query == NNCall("majority", "kneighbors", label, Xp)
       IN  IF FitRaises(Xn)
           THEN /\ nn_calls' = Append(nn_calls, fit)
                /\ Raise("ValueError: fit")
                /\ UNCHANGED objs
           ELSE /\ nn_majority_' = [nn_majority_ EXCEPT !.fit_X = Xn]
                /\ nn_calls' = nn_calls \o <<fit, query>>
                /\ UNCHANGED nn_minority_
                /\ IF KNeighborsRaises(Xn, Xp, k)
                   THEN Raise("ValueError: kneighbors")
                   ELSE /\ EnterBatch(Xp, label, RadiiMajority(label),
                                      ratio_[item].n_samples,
                                      CheckRandomState(random_state, rng),
                                      "append")
                        /\ batches' = Append(batches, "majority")
                        /\ UNCHANGED <<params, locals, returned, raised, run,
                                       first_returned, sample_call>>

\* np.vstack((X_resampled, X_new))
VStackBoth(a, b) == b \o a

VStack(a, b) == a \o b

\* lines 185-190
AppendBatch ==
    /\ pc = "append"
    /\ X_resampled' = VStack(X_resampled, X_new)
    /\ y_resampled' = y_resampled \o y_new
    /\ item' = item + 1
    /\ pc' = "loop"
    /\ UNCHANGED <<params, rng, ret, objs, frame, obs, sample_call>>

\* line 192
Return ==
    /\ pc = "loop"
    /\ item > Len(ratio_)
    /\ returned' = <<X_resampled, y_resampled>>
    /\ pc' = "done"
    /\ UNCHANGED <<params, rng, ret, objs, locals, frame, nn_calls, batches, raised,
                   run, first_returned, sample_call>>

\* the caller resamples the same data with the same estimator a second time
Rerun ==
    /\ pc \in {"done", "error"}
    /\ run = 1
    /\ run' = 2
    /\ first_returned' = <<returned, raised>>
    /\ returned' = Unbound
    /\ raised' = None
    /\ nn_calls' = <<>>
    /\ batches' = <<>>
    /\ pc' = "validate"
    /\ UNCHANGED <<params, rng, ret, objs, locals, frame, sample_call>>

----------------------------------------------------------------------------
(* The resampling call on bounded inputs *)

Classes == {0, 1}

\* self.random_state: an int seed or a RandomState instance
Seeds == {3}
RandomStates == {[type |-> "int", seed |-> s] : s \in Seeds}
                    \cup {[type |-> "instance", seed |-> 0]}

\* rows of the data sets, d features each, at whole distances from each other
DataPoints(d) ==
    IF d = 1 THEN << <<0>>, <<3 * Scale>>, <<7 * Scale>>, <<8 * Scale>>, <<12 * Scale>> >>
    ELSE << <<0, 0>>, <<6 * Scale, 0>>, <<3 * Scale, 4 * Scale>>, <<0, 8 * Scale>>,
            <<6 * Scale, 8 * Scale>> >>

\* self.ratio_: the classes in iteration order (class 1 first), each with its
\* count; the data sets carry every labelling, so the other order adds nothing
Ratios ==
    {<<[class_label |-> 1, n_samples |-> n], [class_label |-> 0, n_samples |-> m]>> :
        n \in 0..MaxSamples, m \in 0..MaxSamples}

NoFrame ==
    /\ part = <<>> /\ class_label = NoLabel /\ radii = <<>> /\ n_samples = 0
    /\ random_states = <<>> /\ samples_indices = <<>> /\ rows = <<>> /\ cols = <<>>
    /\ X_new = <<>> /\ y_new = <<>> /\ filled = {}

NoObs ==
    /\ nn_calls = <<>> /\ batches = <<>> /\ returned = Unbound /\ raised = None
    /\ run = 1 /\ first_returned = Unbound

Init ==
    /\ \E d \in Dims :
          /\ X = SubSeq(DataPoints(d), 1, MaxPoints)
          /\ y \in [1..MaxPoints -> Classes]
    /\ ratio_ \in Ratios
    /\ kind \in GEOMETRIC_SMOTE_KIND \cup {"borderline"}
    /\ k_neighbors \in 1..MaxK
    /\ random_state \in RandomStates
    /\ rng = 0
    /\ pc = "validate" /\ ret = None
    /\ nn_minority_ = NoSearch /\ nn_majority_ = NoSearch
    /\ X_resampled = Unbound /\ y_resampled = Unbound /\ item = 0
    /\ NoFrame /\ NoObs
    /\ sample_call = NoCall

Next ==
    \/ ValidateEstimator
    \/ CopyInputs
    \/ Continue
    \/ MinorityBlock
    \/ MajorityBlock
    \/ Draw
    \/ BatchReturn
    \/ AppendBatch
    \/ Return
    \/ Rerun

Spec == Init /\ [][Next]_vars

----------------------------------------------------------------------------
(* _make_geometric_samples alone, on bounded arguments *)

\* radius matrices of n rows and k columns, entries 0..MaxRadius whole units
RadiusMatrices(n, k) ==
    {[i \in 1..n |-> [c \in 1..k |-> (((a * i) + c + b) % (MaxRadius + 1)) * Scale]] :
        a \in 0..1, b \in 0..MaxRadius}

\* the call of line 177 / 183 with arguments of the caller's choice
BatchCall ==
    /\ pc = "batch_call"
    /\ EnterBatch(part, class_label, radii, n_samples, rng, "batch_done")
    /\ UNCHANGED <<params, objs, locals, obs, sample_call>>

BatchInit ==
    /\ X = <<>> /\ y = <<>> /\ ratio_ = <<>> /\ kind = None /\ k_neighbors = 0
    /\ random_state = [type |-> "instance", seed |-> 0]
    /\ rng \in 0..(RngMod - 1)
    /\ pc = "batch_call" /\ ret = None
    /\ nn_minority_ = NoSearch /\ nn_majority_ = NoSearch
    /\ X_resampled = Unbound /\ y_resampled = Unbound /\ item = 0
    /\ \E d \in Dims, n \in 1..MaxPoints, k \in 1..MaxK :
          /\ part = SubSeq(DataPoints(d), 1, n)
          /\ radii \in RadiusMatrices(n, k)
    /\ class_label \in Classes
    /\ n_samples \in 0..MaxSamples
    /\ random_states = <<>> /\ samples_indices = <<>> /\ rows = <<>> /\ cols = <<>>
    /\ X_new = <<>> /\ y_new = <<>> /\ filled = {}
    /\ NoObs
    /\ sample_call = NoCall

BatchNext == BatchCall \/ Draw \/ BatchReturn

BatchSpec == BatchInit /\ [][BatchNext]_vars

----------------------------------------------------------------------------
(* _make_geometric_sample alone, on bounded arguments *)

Centers(d) ==
    IF d = 1 THEN {<<0>>, <<-2 * Scale>>, <<7 * Scale>>}
    ELSE {<<0, 0>>, <<3 * Scale, -4 * Scale>>, <<-1 * Scale, 2 * Scale>>}

SampleCall ==
    /\ pc = "sample_call"
    /\ \E d \in Dims :
       \E center \in Centers(d), r \in 0..MaxRadius, seed \in 0..(RngMod - 1) :
          sample_call' = [center |-> center, radius |-> r * Scale, seed |-> seed,
                          out |-> MakeGeometricSample(center, r * Scale, seed)]
    /\ pc' = "sample_done"
    /\ UNCHANGED <<params, rng, ret, objs, locals, frame, obs>>

SampleInit ==
    /\ X = <<>> /\ y = <<>> /\ ratio_ = <<>> /\ kind = None /\ k_neighbors = 0
    /\ random_state = [type |-> "int", seed |-> 0]
    /\ rng = 0
    /\ pc = "sample_call" /\ ret = None
    /\ nn_minority_ = NoSearch /\ nn_majority_ = NoSearch
    /\ X_resampled = Unbound /\ y_resampled = Unbound /\ item = 0
    /\ NoFrame /\ NoObs
    /\ sample_call = NoCall

SampleNext == SampleCall

SampleSpec == SampleInit /\ [][SampleNext]_vars

----------------------------------------------------------------------------
(* Properties *)

\* squared Euclidean distance between two points
Dist2(a, b) == Dot(VSub(a, b), VSub(a, b))

\* C1: _make_geometric_samples called with n_samples = N returns a feature batch
\* of exactly N rows, each of the partition's dimension, and N labels, every one
\* equal to the target label.
C1_BatchShape ==
    pc = "batch_done" =>
        /\ Len(X_new) = n_samples
        /\ \A i \in 1..Len(X_new) : Len(X_new[i]) = Len(part[1])
        /\ Len(y_new) = n_samples
        /\ \A i \in 1..Len(y_new) : y_new[i] = class_label

C1_Witness == pc = "batch_done" /\ n_samples >= 2 /\ class_label = 1 /\ Len(part[1]) = 2

\* C2: for radius > 0 the point returned by _make_geometric_sample is at
\* Euclidean distance at most radius from center.
C2_WithinBall ==
    (sample_call # NoCall /\ sample_call.radius > 0) =>
        Dist2(sample_call.out, sample_call.center)
            <= sample_call.radius * sample_call.radius

C2_Witness ==
    /\ sample_call # NoCall
    /\ sample_call.radius > 0
    /\ Len(sample_call.center) = 2
    /\ Dist2(sample_call.out, sample_call.center) > 0

\* C3: with radius 0, _make_geometric_sample returns center exactly, for every
\* center and generator state, single-feature data included.
C3_ZeroRadius ==
    (sample_call # NoCall /\ sample_call.radius = 0) =>
        sample_call.out = sample_call.center

C3_Witness ==
    /\ sample_call # NoCall
    /\ sample_call.radius = 0
    /\ Len(sample_call.center) = 1
    /\ sample_call.center # <<0>>

\* the count self.ratio_ gives a class
CountOf(label) ==
    LET at == {i \in 1..Len(ratio_) : ratio_[i].class_label = label}
    IN  IF at = {} THEN 0 ELSE ratio_[CHOOSE i \in at : TRUE].n_samples

\* the sum of the counts of the first n items of self.ratio_
RECURSIVE CountSum(_)
CountSum(n) == IF n = 0 THEN 0 ELSE ratio_[n].n_samples + CountSum(n - 1)

\* the labels appended for the first n items of self.ratio_, in iteration order
RECURSIVE LabelsOfItems(_)
LabelsOfItems(n) ==
    IF n = 0 THEN <<>>
    ELSE LabelsOfItems(n - 1)
            \o [j \in 1..ratio_[n].n_samples |-> ratio_[n].class_label]

\* C4: a target class whose count is 0 never has a neighbor search fitted or
\* queried for it and contributes no rows and no labels; when every count is 0
\* the result equals the input.
C4_ZeroCountSkipped ==
    /\ \A c \in 1..Len(nn_calls) : CountOf(nn_calls[c].class_label) > 0
    /\ pc = "done" =>
        /\ Len(returned[1]) = Len(X) + CountSum(Len(ratio_))
        /\ \A i \in (Len(y) + 1)..Len(returned[2]) : CountOf(returned[2][i]) > 0
        /\ (\A i \in 1..Len(ratio_) : ratio_[i].n_samples = 0) => returned = <<X, y>>

C4_Witness ==
    /\ pc = "done"
    /\ ratio_[1].n_samples = 0
    /\ ratio_[2].n_samples > 0
    /\ nn_calls # <<>>

C4_WitnessAllZero ==
    /\ pc = "done"
    /\ \A i \in 1..Len(ratio_) : ratio_[i].n_samples = 0

\* C5: with a kind outside ('regular', 'majority', 'minority') the call fails
\* with the configuration error before any data is touched: no copy of X or y,
\* no neighbor search created, fitted or queried, no batch, no sample.
C5_UnknownKindFailsFirst ==
    kind \notin GEOMETRIC_SMOTE_KIND =>
        /\ pc \in {"validate", "error"}
        /\ pc = "error" => raised = "ValueError: unknown kind"
        /\ returned = Unbound
        /\ X_resampled = Unbound /\ y_resampled = Unbound
        /\ nn_minority_ = NoSearch /\ nn_majority_ = NoSearch
        /\ nn_calls = <<>> /\ batches = <<>>
        /\ sample_call = NoCall

C5_Witness == kind \notin GEOMETRIC_SMOTE_KIND /\ pc = "error"

\* a class with a positive count whose partition handed to a neighbor search is empty
EmptyPartition(i) ==
    /\ ratio_[i].n_samples > 0
    /\ \/ kind \in {"minority", "regular"} /\ X_positive(ratio_[i].class_label) = <<>>
       \/ kind \in {"majority", "regular"} /\ X_negative(ratio_[i].class_label) = <<>>

\* C6: when some class with a positive count has an empty partition for its
\* neighbor search, the call never returns a result: it ends in an error
\* (also after batches of earlier classes were generated), and X and y are
\* unchanged.
C6_EmptyPartitionFails ==
    /\ [](((kind \in GEOMETRIC_SMOTE_KIND)
            /\ (\E i \in 1..Len(ratio_) : EmptyPartition(i)))
          => (pc # "done" /\ returned = Unbound))
    /\ [][X' = X /\ y' = y]_vars

C6_Witness ==
    /\ \E i \in 1..Len(ratio_) : EmptyPartition(i)
    /\ pc = "error"
    /\ raised = "ValueError: fit"
    /\ batches # <<>>
    /\ Len(X_resampled) > Len(X)

\* C7: with an int seed, a second run on the same inputs returns (or raises)
\* exactly what the first run did, although the second run executes the draws
\* of each batch in any order.
C7_Deterministic ==
    (random_state.type = "int" /\ run = 2 /\ pc \in {"done", "error"}) =>
        <<returned, raised>> = first_returned

C7_Witness ==
    /\ random_state.type = "int"
    /\ run = 2
    /\ pc = "done"
    /\ \E i \in 1..Len(ratio_) : ratio_[i].n_samples >= 2

\* C8: in minority mode the search is fitted on the positive partition with
\* k_neighbors + 1 neighbors and queried with the same partition, and no
\* (point, rank) pair selectable for a draw is the point's match with itself.
C8_NoSelfMatch ==
    (kind = "minority" /\ pc = "draw") =>
        /\ nn_minority_ = [n_neighbors |-> k_neighbors + 1,
                           fit_X |-> X_positive(class_label)]
        /\ part = X_positive(class_label)
        /\ radii = KNeighbors(part, part, k_neighbors + 1)
        /\ \A idx \in 0..(FlatLen(radii) - 1) :
              LET row == idx \div Len(radii[1])
                  col == idx % Len(radii[1])
              IN  KNeighborsInd(part, part, k_neighbors + 1)[row + 1][col + 1] # row + 1

\* C9: in regular mode both blocks run for a class, and the batch appended is
\* the one generated from the majority radii (positive points against the
\* negative partition, one neighbor): n_samples rows per class are appended.
C9_RegularKeepsMajority ==
    kind = "regular" =>
        /\ pc = "append" =>
            LET radii_majority == RadiiMajority(class_label)
                Xp == X_positive(class_label)
            IN  /\ Len(batches) >= 2
                /\ SubSeq(batches, Len(batches) - 1, Len(batches))
                      = <<"minority", "majority">>
                /\ radii = radii_majority
                /\ Len(X_new) = ratio_[item].n_samples
                /\ \A i \in 1..Len(X_new) :
                      X_new[i] = MakeGeometricSample(Xp[rows[i] + 1],
                                                     radii_majority[rows[i] + 1][1],
                                                     random_states[i])
        /\ pc = "loop" => Len(X_resampled) = Len(X) + CountSum(item - 1)

C9_Witness ==
    /\ kind = "regular"
    /\ pc = "append"
    /\ item = 2
    /\ Len(X_new) >= 2
    /\ ratio_[1].n_samples > 0
    /\ Len(X_resampled) = Len(X) + ratio_[1].n_samples

\* C10: _sample does not mutate X and y; the result has the rows of X as its
\* prefix, then the batches in class-iteration order; the labels have the same
\* length, len(X) + the sum of the counts, and each appended label is the class
\* of its batch.
C10_ResultLayout ==
    /\ [](pc = "done" =>
            /\ SubSeq(returned[1], 1, Len(X)) = X
            /\ Len(returned[1]) = Len(X) + CountSum(Len(ratio_))
            /\ Len(returned[2]) = Len(returned[1])
            /\ returned[2] = y \o LabelsOfItems(Len(ratio_)))
    /\ [][X' = X /\ y' = y]_vars

C10_Witness ==
    /\ pc = "done"
    /\ ratio_[1].n_samples > 0
    /\ ratio_[2].n_samples > 0
    /\ kind = "minority"

\* C11: every selection index drawn lies in [0, n_points * k); its row = idx div k
\* and col = idx mod k satisfy 0 <= row < n_points, 0 <= col < k and
\* row * k + col = idx, so X[row] and radii[row, col] exist; and the indices
\* 0 .. n_points * k - 1 map one-to-one onto the (row, col) pairs in row-major order.
C11_IndexArithmetic ==
    pc \in {"draw", "batch_done"} =>
        LET n   == Len(radii)
            k   == Len(radii[1])
            all == [j \in 1..(n * k) |-> j - 1]
        IN  /\ \A i \in 1..Len(samples_indices) :
                  /\ samples_indices[i] \in 0..(n * k - 1)
                  /\ rows[i] \in 0..(n - 1)
                  /\ cols[i] \in 0..(k - 1)
                  /\ rows[i] * k + cols[i] = samples_indices[i]
                  /\ rows[i] + 1 \in DOMAIN part
                  /\ cols[i] + 1 \in DOMAIN radii[rows[i] + 1]
            /\ \A r \in 0..(n - 1), c \in 0..(k - 1) :
                  /\ RowsOf(all, radii)[r * k + c + 1] = r
                  /\ ColsOf(all, radii)[r * k + c + 1] = c

C11_Witness ==
    /\ pc = "batch_done"
    /\ Len(radii) = 3
    /\ Len(radii[1]) = 2
    /\ \E i \in 1..Len(samples_indices) : rows[i] = 2 /\ cols[i] = 1
    /\ \E i \in 1..Len(samples_indices) : cols[i] = 0

\* C12: row i of a batch is the geometric sample whose center is the selected
\* point X[row_i] of the target class's positive partition of the original data
\* and whose radius is radii[row_i, col_i], so it lies within that radius of
\* its anchor; the rows appended to the resampled data are the batch in draw order.
C12_AnchoredDraws ==
    /\ class_label # NoLabel =>
          LET Xp == X_positive(class_label)
          IN  \A i \in filled :
                 LET anchor == Xp[rows[i] + 1]
                     radius == radii[rows[i] + 1][cols[i] + 1]
                 IN  /\ \E j \in 1..Len(X) : X[j] = anchor /\ y[j] = class_label
                     /\ X_new[i] = MakeGeometricSample(anchor, radius, random_states[i])
                     /\ Dist2(X_new[i], anchor) <= radius * radius
    /\ (pc = "loop" /\ item > 1 /\ ratio_[item - 1].n_samples > 0) =>
          /\ class_label = ratio_[item - 1].class_label
          /\ SubSeq(X_resampled, Len(X_resampled) - Len(X_new) + 1, Len(X_resampled))
                = X_new

C12_Witness ==
    /\ pc = "loop"
    /\ item > 1
    /\ kind = "minority"
    /\ Len(X_new) >= 2
    /\ \E i \in filled : rows[i] > 0 /\ cols[i] > 0 /\ X_new[i] # Center(i)
    /\ \E i \in filled, j \in filled : rows[i] # rows[j]

====
